---- MODULE Spec2Model ----
(***************************************************************************)
(* portal-tunnel: the tunnel session orchestrator of cmd/main.go and the   *)
(* relay directory of cmd/config.go.                                       *)
(*                                                                         *)
(* Goroutines are modelled as processes with a program counter each:       *)
(*   supervisor      runExposeWithConfig (main.go:71-122)                  *)
(*   session s       runServiceTunnel    (main.go:203-283) and the         *)
(*                   goroutine wrapping it (main.go:96-101)                *)
(*   proxy p         proxyConnection     (main.go:165-201) and the         *)
(*                   goroutine wrapping it (main.go:275-281), with its     *)
(*                   three helper goroutines (watcher, two io.Copy tasks)  *)
(* Strings are sequences of one-character strings so that TrimSpace is     *)
(* computed, not assumed.                                                  *)
(***************************************************************************)
EXTENDS Naturals, Sequences, FiniteSets

\* ------------------------------------------------------------------ bounds
\* most tasks alive at a time: the sessions (one per configured service) plus
\* the proxyConnection calls of all sessions together. A run with n services
\* has MaxTasks - n proxy slots; the listeners hand out any number of relay
\* connections one after another.
MaxTasks == 3

\* longest relay list and longest preference list handed to the relay
\* directory where its resolution is examined by itself
MaxRelays == 2
MaxPrefs == 2

\* ------------------------------------------------------- strings (config.go)
SP == " "

RECURSIVE TrimLeft(_)
TrimLeft(s) ==
    IF s = <<>> THEN <<>>
    ELSE IF Head(s) = SP THEN TrimLeft(Tail(s)) ELSE s

RECURSIVE TrimRight(_)
TrimRight(s) ==
    IF s = <<>> THEN <<>>
    ELSE IF s[Len(s)] = SP THEN TrimRight(SubSeq(s, 1, Len(s) - 1)) ELSE s

\* strings.TrimSpace
TrimSpace(s) == TrimRight(TrimLeft(s))

\* ------------------------------------------------ relay directory (config.go)
RelayConfig(name, urls) == [Name |-> name, URLs |-> urls]

ServiceConfig(name, prefs, target, protocols) ==
    [Name |-> name, RelayPreference |-> prefs, Target |-> target,
     Protocols |-> protocols]

TunnelConfig(relays, services) == [Relays |-> relays, Services |-> services]

\* var defaultProtocols = []string{"http/1.1", "h2"}
defaultProtocols == << <<"h", "t", "t", "p", "/", "1", ".", "1">>, <<"h", "2">> >>

\* applyServiceDefaults: empty protocols become a copy of the default list
applyServiceDefaults(svc) ==
    IF Len(svc.Protocols) = 0
    THEN [svc EXCEPT !.Protocols = defaultProtocols]
    ELSE svc

\* TunnelConfig.applyDefaults
applyDefaults(c) ==
    [c EXCEPT !.Services =
        [i \in 1..Len(c.Services) |-> applyServiceDefaults(c.Services[i])]]

\* NewRelayDirectory: idx[relay.Name] = relay, in list order, the name is
\* NOT trimmed and a later relay of the same name overwrites an earlier one.
NewRelayDirectory(relays) ==
    LET names == {relays[i].Name : i \in 1..Len(relays)}
        last(n) == CHOOSE i \in 1..Len(relays) :
                      /\ relays[i].Name = n
                      /\ \A j \in 1..Len(relays) : relays[j].Name = n => j <= i
    IN  [entries |-> [n \in names |-> relays[last(n)]]]

\* AppendURLs without the seen set: every non-blank URL is appended
RECURSIVE AppendURLs_NoDedup(_, _)
AppendURLs_NoDedup(servers, urls) ==
    IF urls = <<>> THEN servers
    ELSE LET url == TrimSpace(Head(urls))
         IN  IF url = <<>>
             THEN AppendURLs_NoDedup(servers, Tail(urls))
             ELSE AppendURLs_NoDedup(Append(servers, url), Tail(urls))

\* the inner loop of BootstrapServers over one relay's URLs: trims each
\* URL, skips blanks and URLs already in servers (the seen set)
RECURSIVE AppendURLs(_, _)
AppendURLs(servers, urls) ==
    IF urls = <<>> THEN servers
    ELSE LET url == TrimSpace(Head(urls))
             seen == {servers[i] : i \in 1..Len(servers)}
         IN  IF url = <<>> \/ url \in seen
             THEN AppendURLs(servers, Tail(urls))
             ELSE AppendURLs(Append(servers, url), Tail(urls))

\* the outer loop of BootstrapServers over the preference list
RECURSIVE CollectServers(_, _, _)
CollectServers(rd, servers, preferences) ==
    IF preferences = <<>> THEN servers
    ELSE LET relayName == TrimSpace(Head(preferences))
         IN  IF relayName = <<>> \/ relayName \notin DOMAIN rd.entries
             THEN CollectServers(rd, servers, Tail(preferences))
             ELSE CollectServers(rd,
                     AppendURLs(servers, rd.entries[relayName].URLs),
                     Tail(preferences))

ErrEmptyPreference == "relayPreference must contain at least one relay name"
ErrNoneResolved == "no bootstrap servers resolved"

\* BootstrapServers without the test of the resolved list's length
BootstrapServers_NoEmptyCheck(rd, preferences) ==
    IF Len(preferences) = 0
    THEN [servers |-> <<>>, err |-> ErrEmptyPreference]
    ELSE [servers |-> CollectServers(rd, <<>>, preferences), err |-> "nil"]

\* RelayDirectory.BootstrapServers: (servers, err)
BootstrapServers(rd, preferences) ==
    IF Len(preferences) = 0
    THEN [servers |-> <<>>, err |-> ErrEmptyPreference]
    ELSE LET servers == CollectServers(rd, <<>>, preferences)
         IN  IF Len(servers) = 0
             THEN [servers |-> <<>>, err |-> ErrNoneResolved]
             ELSE [servers |-> servers, err |-> "nil"]

\* TunnelConfig.validate: TRUE when errs stays empty (the nil return)
validate(c) ==
    LET tname(i) == TrimSpace(c.Relays[i].Name)
        relayIdx == {tname(i) : i \in 1..Len(c.Relays)} \ {<<>>}
        relayOK(i) ==
            /\ tname(i) # <<>>
            /\ \A j \in 1..(i - 1) : tname(j) # tname(i)
            /\ Len(c.Relays[i].URLs) # 0
            /\ \A j \in 1..Len(c.Relays[i].URLs) :
                   TrimSpace(c.Relays[i].URLs[j]) # <<>>
        serviceOK(i) ==
            LET svc == c.Services[i]
            IN  /\ TrimSpace(svc.Name) # <<>>
                /\ TrimSpace(svc.Target) # <<>>
                /\ \A j \in 1..Len(svc.Protocols) :
                       TrimSpace(svc.Protocols[j]) # <<>>
                /\ Len(svc.RelayPreference) # 0
                /\ \A j \in 1..Len(svc.RelayPreference) :
                       /\ TrimSpace(svc.RelayPreference[j]) # <<>>
                       /\ TrimSpace(svc.RelayPreference[j]) \in relayIdx
    IN  /\ Len(c.Relays) # 0
        /\ \A i \in 1..Len(c.Relays) : relayOK(i)
        /\ Len(c.Services) # 0
        /\ \A i \in 1..Len(c.Services) : serviceOK(i)

\* LoadConfig after a successful read and parse: defaults, then validate
LoadConfig(parsed) ==
    LET c == applyDefaults(parsed)
    IN  [cfg |-> c, ok |-> validate(c)]

\* ------------------------------------------------------------------ state
VARIABLES
    mode,       \* runExpose: "config" (--config given) or "flags"
    cfg,        \* the relays and services of the run: the validated
                \* *TunnelConfig LoadConfig returned, or the one relay and
                \* one service runExposeWithFlags builds
    ctxDone,    \* ctx of runExposeWithConfig is cancelled (ctx.Done() closed)
    signalled,  \* SIGINT/SIGTERM was delivered to sigCh
    errCh,      \* supervisor's errCh: the buffered errors, oldest first
    wg,         \* supervisor's wg counter
    doneCh,     \* doneCh is closed
    sup,        \* runExposeWithConfig: [pc, err (received), ret]
    sess,       \* session s: runServiceTunnel and its goroutines
    proxy,      \* proxy p: proxyConnection and its goroutines
    failOrder   \* sessions whose runServiceTunnel returned non-nil, in order

vars == <<mode, cfg, ctxDone, signalled, errCh, wg, doneCh, sup, sess, proxy, failOrder>>

Sessions == 1..(MaxTasks - 1)
Proxies == 1..(MaxTasks - 1)

\* characters and names the configurations are built from
NameA == <<"a">>
NameSpA == <<SP, "a">>
URL1 == <<"u">>
URL2 == <<"v">>

\* the relay lists a configuration file may hold; a name may carry blanks
RelayLists ==
    { << RelayConfig(NameA, <<URL1, URL2>>) >>,
      << RelayConfig(NameSpA, <<URL1>>) >> }

\* a service of the configuration file (protocols left to the defaults)
ParsedService == ServiceConfig(<<"s">>, <<NameA>>, <<"t">>, <<>>)

\* the parsed configuration files: a relay list and one service or more
ParsedConfigs ==
    { TunnelConfig(r, [i \in 1..n |-> ParsedService]) :
        r \in RelayLists, n \in Sessions }

\* runExposeWithFlags (main.go:125-143): the relay "flags" holding the URLs
\* of --relay (at least one, or the run ends before anything starts) and the
\* one service, its name trimmed, preferring that relay
FlagsName == <<"f", "l", "a", "g", "s">>

FlagsConfig(relayURLs, flagName, target) ==
    TunnelConfig(<< RelayConfig(FlagsName, relayURLs) >>,
                 << applyServiceDefaults(
                        ServiceConfig(TrimSpace(flagName), <<FlagsName>>, target, <<>>)) >>)

\* relayDir := NewRelayDirectory(cfg.Relays)  (main.go:76, 138-143)
relayDir == NewRelayDirectory(cfg.Relays)

\* a session before its goroutine has run a statement of runServiceTunnel
\* (connCount is written to the log only and is left out)
NewSession ==
    [pc |-> "resolve", ret |-> "none",
     bootstrapServers |-> <<>>, resolveErr |-> "none",
     client |-> "none", listener |-> "none",
     clientCloses |-> 0, listenerCloses |-> 0, closer |-> "none",
     connWG |-> 0]

\* a session index the configuration has no service for
NoSession == [NewSession EXCEPT !.pc = "absent"]

\* a proxy slot no relay connection has been handed to yet
NoProxy ==
    [owner |-> 0, pc |-> "unused", relayConn |-> "none", localConn |-> "none",
     relayCloses |-> 0, localCloses |-> 0, watcher |-> "none",
     copyRL |-> "none", copyLR |-> "none", errCh |-> <<>>, stopCh |-> FALSE,
     err |-> "none", ret |-> "none"]

\* runExposeWithConfig up to its select (main.go:72-108): the config is
\* loaded and valid, one goroutine per service is started (wg.Add each),
\* the wg waiter is started, nothing has run yet.
\* runExposeWithFlags up to its call of runServiceTunnel (main.go:125-157):
\* no errCh, wg or doneCh; the supervisor is the caller of the one session.
Init ==
    /\ mode \in {"config", "flags"}
    /\ cfg \in IF mode = "config"
               THEN {LoadConfig(c).cfg : c \in {d \in ParsedConfigs : LoadConfig(d).ok}}
               ELSE {FlagsConfig(<<URL1, URL2>>, <<SP, "s">>, <<"t">>)}
    /\ ctxDone = FALSE
    /\ signalled = FALSE
    /\ errCh = <<>>
    /\ wg = IF mode = "config" THEN Len(cfg.Services) ELSE 0
    /\ doneCh = FALSE
    /\ sup = [pc |-> IF mode = "config" THEN "select" ELSE "call",
              err |-> 0, ret |-> "none"]
    /\ sess = [s \in Sessions |->
                 IF s <= Len(cfg.Services) THEN NewSession ELSE NoSession]
    /\ proxy = [p \in Proxies |->
                 IF p <= MaxTasks - Len(cfg.Services) THEN NoProxy
                 ELSE [NoProxy EXCEPT !.pc = "absent"]]
    /\ failOrder = <<>>

\* --------------------------------------------- external shutdown (main.go:81-88)
\* SIGINT/SIGTERM arrives on sigCh; the handler goroutine calls cancel().
\* The process is gone once runExpose has returned to main.
SignalHandler ==
    /\ ~signalled
    /\ sup.pc # "returned"
    /\ signalled' = TRUE
    /\ ctxDone' = TRUE
    /\ UNCHANGED <<mode, cfg, errCh, wg, doneCh, sup, sess, proxy, failOrder>>

\* ------------------------------------------------ session: runServiceTunnel
IsErr(ret) == ret \notin {"none", "nil"}

\* return from runServiceTunnel with ret; failOrder records a non-nil return
SessReturn(s, ret, fields) ==
    /\ sess' = [sess EXCEPT ![s] = [fields EXCEPT !.pc = "returned", !.ret = ret]]
    /\ failOrder' = IF IsErr(ret) THEN Append(failOrder, s) ELSE failOrder

\* main.go:204-209: relayDir.BootstrapServers(service.RelayPreference)
Resolve(s) ==
    /\ sess[s].pc = "resolve"
    /\ LET r == BootstrapServers(relayDir, cfg.Services[s].RelayPreference)
           resolved == [sess[s] EXCEPT !.bootstrapServers = r.servers,
                                       !.resolveErr = r.err]
       IN  IF r.err # "nil"
           THEN SessReturn(s, "errResolve", resolved)
           ELSE /\ sess' = [sess EXCEPT ![s] = [resolved EXCEPT !.pc = "newClient"]]
                /\ UNCHANGED failOrder
    /\ UNCHANGED <<mode, cfg, ctxDone, signalled, errCh, wg, doneCh, sup, proxy>>

\* main.go:211-229: sdk.NewCredential, sdk.NewClient, defer client.Close()
NewClient(s, ok) ==
    /\ sess[s].pc = "newClient"
    /\ IF ok
       THEN /\ sess' = [sess EXCEPT ![s].pc = "listen", ![s].client = "open"]
            /\ UNCHANGED failOrder
       ELSE SessReturn(s, "errConnect", sess[s])
    /\ UNCHANGED <<mode, cfg, ctxDone, signalled, errCh, wg, doneCh, sup, proxy>>

\* Listen that answers a failed registration by connecting again: the client
\* is closed and the session goes back to sdk.NewClient
Listen_Retry(s, ok) ==
    /\ sess[s].pc = "listen"
    /\ IF ok
       THEN sess' = [sess EXCEPT ![s].pc = "loopTop", ![s].listener = "open",
                                 ![s].closer = "wait"]
       ELSE sess' = [sess EXCEPT ![s].pc = "newClient", ![s].client = "closed",
                                 ![s].clientCloses = sess[s].clientCloses + 1]
    /\ UNCHANGED <<mode, cfg, ctxDone, signalled, errCh, wg, doneCh, sup, proxy, failOrder>>

\* main.go:231-252: client.Listen, defer listener.Close(), the goroutine that
\* closes the listener on ctx.Done(), connCount := 0, defer connWG.Wait().
\* On failure the deferred client.Close() runs and the error is returned.
Listen(s, ok) ==
    /\ sess[s].pc = "listen"
    /\ IF ok
       THEN /\ sess' = [sess EXCEPT ![s].pc = "loopTop", ![s].listener = "open",
                                    ![s].closer = "wait"]
            /\ UNCHANGED failOrder
       ELSE SessReturn(s, "errRegister",
                [sess[s] EXCEPT !.client = "closed",
                                !.clientCloses = sess[s].clientCloses + 1])
    /\ UNCHANGED <<mode, cfg, ctxDone, signalled, errCh, wg, doneCh, sup, proxy>>

\* main.go:237-240: <-ctx.Done(); _ = listener.Close()
ListenerCloser(s) ==
    /\ sess[s].closer = "wait"
    /\ ctxDone
    /\ sess' = [sess EXCEPT ![s].closer = "done", ![s].listener = "closed",
                            ![s].listenerCloses = sess[s].listenerCloses + 1]
    /\ UNCHANGED <<mode, cfg, ctxDone, signalled, errCh, wg, doneCh, sup, proxy, failOrder>>

\* main.go:253-260: the select at the top of the loop, then the call of
\* listener.Accept(); "return nil" leaves the loop for the deferred calls
LoopTop(s) ==
    /\ sess[s].pc = "loopTop"
    /\ sess' = [sess EXCEPT ![s].pc = IF ctxDone THEN "drain" ELSE "accept",
                            ![s].ret = IF ctxDone THEN "nil" ELSE sess[s].ret]
    /\ UNCHANGED <<mode, cfg, ctxDone, signalled, errCh, wg, doneCh, sup, proxy, failOrder>>

\* a proxy slot is free when no proxyConnection call was made in it, or the
\* call has returned and every goroutine it started has ended
Free(p) == /\ proxy[p].pc \in {"unused", "done"}
           /\ proxy[p].watcher \in {"none", "done"}

\* the proxy slot the next accepted connection gets
NextProxy == CHOOSE p \in Proxies : Free(p) /\ \A q \in Proxies : Free(q) => p <= q

\* AcceptOk with a look at the context after Accept: on a cancelled context
\* the loop returns nil and the connection just accepted is left as it is
AcceptOk_DropOnCancel(s) ==
    /\ sess[s].pc = "accept"
    /\ sess[s].listener = "open"
    /\ \E p \in Proxies : Free(p)
    /\ IF ctxDone
       THEN /\ sess' = [sess EXCEPT ![s].pc = "drain", ![s].ret = "nil"]
            /\ UNCHANGED proxy
       ELSE /\ sess' = [sess EXCEPT ![s].pc = "loopTop",
                                    ![s].connWG = sess[s].connWG + 1]
            /\ proxy' = [proxy EXCEPT ![NextProxy] =
                    [NoProxy EXCEPT !.owner = s, !.pc = "dial", !.relayConn = "open"]]
    /\ UNCHANGED <<mode, cfg, ctxDone, signalled, errCh, wg, doneCh, sup, failOrder>>

\* main.go:260, 271-282: Accept returns a relay connection; connWG.Add(1),
\* go func(relayConn){...}, back to the top of the loop
AcceptOk(s) ==
    /\ sess[s].pc = "accept"
    /\ sess[s].listener = "open"
    /\ \E p \in Proxies : Free(p)
    /\ sess' = [sess EXCEPT ![s].pc = "loopTop",
                            ![s].connWG = sess[s].connWG + 1]
    /\ proxy' = [proxy EXCEPT ![NextProxy] =
                    [NoProxy EXCEPT !.owner = s, !.pc = "dial", !.relayConn = "open"]]
    /\ UNCHANGED <<mode, cfg, ctxDone, signalled, errCh, wg, doneCh, sup, failOrder>>

\* main.go:260-261: Accept returns an error, because the listener was closed
\* ("closed") or for a reason of the relay's ("transient")
AcceptFail(s, cause) ==
    /\ sess[s].pc = "accept"
    /\ cause = "closed" => sess[s].listener = "closed"
    /\ sess' = [sess EXCEPT ![s].pc = "acceptErr"]
    /\ UNCHANGED <<mode, cfg, ctxDone, signalled, errCh, wg, doneCh, sup, proxy, failOrder>>

\* AcceptErr without the select: a failed Accept ends the loop and its error
\* is returned (the deferred calls run as on every return)
AcceptErr_Fatal(s) ==
    /\ sess[s].pc = "acceptErr"
    /\ sess' = [sess EXCEPT ![s].pc = "drain", ![s].ret = "errAccept"]
    /\ UNCHANGED <<mode, cfg, ctxDone, signalled, errCh, wg, doneCh, sup, proxy, failOrder>>

\* main.go:262-268: the select after a failed Accept returns nil when ctx is
\* done, and otherwise logs the error and continues the loop
AcceptErr(s) ==
    /\ sess[s].pc = "acceptErr"
    /\ sess' = [sess EXCEPT ![s].pc = IF ctxDone THEN "drain" ELSE "loopTop",
                            ![s].ret = IF ctxDone THEN "nil" ELSE sess[s].ret]
    /\ UNCHANGED <<mode, cfg, ctxDone, signalled, errCh, wg, doneCh, sup, proxy, failOrder>>

\* Drain with "defer connWG.Wait()" left out
Drain_NoWait(s) ==
    /\ sess[s].pc = "drain"
    /\ SessReturn(s, sess[s].ret,
          [sess[s] EXCEPT !.listener = "closed",
                          !.listenerCloses = sess[s].listenerCloses + 1,
                          !.client = "closed",
                          !.clientCloses = sess[s].clientCloses + 1])
    /\ UNCHANGED <<mode, cfg, ctxDone, signalled, errCh, wg, doneCh, sup, proxy>>

\* Drain with "defer client.Close()" left out
Drain_NoClientClose(s) ==
    /\ sess[s].pc = "drain"
    /\ sess[s].connWG = 0
    /\ SessReturn(s, sess[s].ret,
          [sess[s] EXCEPT !.listener = "closed",
                          !.listenerCloses = sess[s].listenerCloses + 1])
    /\ UNCHANGED <<mode, cfg, ctxDone, signalled, errCh, wg, doneCh, sup, proxy>>

\* main.go:252, 235, 229 run in reverse on "return nil": connWG.Wait()
\* blocks until the counter is zero, then listener.Close(), client.Close()
Drain(s) ==
    /\ sess[s].pc = "drain"
    /\ sess[s].connWG = 0
    /\ SessReturn(s, sess[s].ret,
          [sess[s] EXCEPT !.listener = "closed",
                          !.listenerCloses = sess[s].listenerCloses + 1,
                          !.client = "closed",
                          !.clientCloses = sess[s].clientCloses + 1])
    /\ UNCHANGED <<mode, cfg, ctxDone, signalled, errCh, wg, doneCh, sup, proxy>>

\* SessionTask on an errCh made with room for one error only
SessionTask_OneSlot(s) ==
    /\ mode = "config"
    /\ sess[s].pc = "returned"
    /\ IF IsErr(sess[s].ret)
       THEN /\ Len(errCh) < 1
            /\ errCh' = Append(errCh, s)
       ELSE UNCHANGED errCh
    /\ wg' = wg - 1
    /\ sess' = [sess EXCEPT ![s].pc = "finished"]
    /\ UNCHANGED <<mode, cfg, ctxDone, signalled, doneCh, sup, proxy, failOrder>>

\* main.go:96-101: the goroutine around runServiceTunnel: errCh <- err when
\* err != nil (blocks while the buffer of len(cfg.Services) is full), then
\* the deferred wg.Done()
SessionTask(s) ==
    /\ mode = "config"
    /\ sess[s].pc = "returned"
    /\ IF IsErr(sess[s].ret)
       THEN /\ Len(errCh) < Len(cfg.Services)
            /\ errCh' = Append(errCh, s)
       ELSE UNCHANGED errCh
    /\ wg' = wg - 1
    /\ sess' = [sess EXCEPT ![s].pc = "finished"]
    /\ UNCHANGED <<mode, cfg, ctxDone, signalled, doneCh, sup, proxy, failOrder>>

\* ------------------------------------------- supervisor: runExposeWithConfig
\* main.go:105-108: wg.Wait(); close(doneCh)
WgWaiter ==
    /\ mode = "config"
    /\ wg = 0
    /\ ~doneCh
    /\ doneCh' = TRUE
    /\ UNCHANGED <<mode, cfg, ctxDone, signalled, errCh, wg, sup, sess, proxy, failOrder>>

\* main.go:111-112: case err := <-errCh: cancel()
SelectErr ==
    /\ sup.pc = "select"
    /\ errCh # <<>>
    /\ sup' = [sup EXCEPT !.pc = "waitErr", !.err = Head(errCh)]
    /\ errCh' = Tail(errCh)
    /\ ctxDone' = TRUE
    /\ UNCHANGED <<mode, cfg, signalled, wg, doneCh, sess, proxy, failOrder>>

\* SelectCtx with the context's error handed back: the cancellation case
\* waits for the sessions and then returns a non-nil error
SelectCtx_ReturnsErr ==
    /\ sup.pc = "select"
    /\ ctxDone
    /\ sup' = [sup EXCEPT !.pc = "waitErr"]
    /\ UNCHANGED <<mode, cfg, ctxDone, signalled, errCh, wg, doneCh, sess, proxy, failOrder>>

\* main.go:115: case <-ctx.Done():
SelectCtx ==
    /\ sup.pc = "select"
    /\ ctxDone
    /\ sup' = [sup EXCEPT !.pc = "waitCtx"]
    /\ UNCHANGED <<mode, cfg, ctxDone, signalled, errCh, wg, doneCh, sess, proxy, failOrder>>

\* main.go:119-120: case <-doneCh: return nil  (the deferred cancel() runs)
SelectDone ==
    /\ sup.pc = "select"
    /\ doneCh
    /\ sup' = [sup EXCEPT !.pc = "returned", !.ret = "nil"]
    /\ ctxDone' = TRUE
    /\ UNCHANGED <<mode, cfg, signalled, errCh, wg, doneCh, sess, proxy, failOrder>>

\* WaitDone without "<-doneCh": the supervisor returns as soon as it has
\* taken the error or seen the cancellation
WaitDone_NoWait ==
    /\ sup.pc \in {"waitErr", "waitCtx"}
    /\ sup' = [sup EXCEPT !.pc = "returned",
                          !.ret = IF sup.pc = "waitErr" THEN "err" ELSE "nil"]
    /\ ctxDone' = TRUE
    /\ UNCHANGED <<mode, cfg, signalled, errCh, wg, doneCh, sess, proxy, failOrder>>

\* main.go:113-114 and 116-118: <-doneCh, then return err / return nil
WaitDone ==
    /\ sup.pc \in {"waitErr", "waitCtx"}
    /\ doneCh
    /\ sup' = [sup EXCEPT !.pc = "returned",
                          !.ret = IF sup.pc = "waitErr" THEN "err" ELSE "nil"]
    /\ ctxDone' = TRUE
    /\ UNCHANGED <<mode, cfg, signalled, errCh, wg, doneCh, sess, proxy, failOrder>>

\* main.go:157-162: runServiceTunnel has returned to runExposeWithFlags,
\* which returns its error, or nil (the deferred cancel() runs)
FlagsReturn ==
    /\ mode = "flags"
    /\ sup.pc = "call"
    /\ sess[1].pc = "returned"
    /\ sup' = [sup EXCEPT !.pc = "returned",
                          !.ret = IF IsErr(sess[1].ret) THEN "err" ELSE "nil",
                          !.err = IF IsErr(sess[1].ret) THEN 1 ELSE sup.err]
    /\ sess' = [sess EXCEPT ![1].pc = "finished"]
    /\ ctxDone' = TRUE
    /\ UNCHANGED <<mode, cfg, signalled, errCh, wg, doneCh, proxy, failOrder>>

\* ------------------------------------------------- proxy: proxyConnection
\* conn.Close() on the relay connection / the local connection of a proxy
CloseRelay(r) == [r EXCEPT !.relayConn = "closed", !.relayCloses = r.relayCloses + 1]
CloseLocal(r) == [r EXCEPT !.localConn = "closed", !.localCloses = r.localCloses + 1]

\* ProxyReturn with the proxy's error handed on as the session's result
ProxyReturn_Propagate(p, ret, fields) ==
    /\ proxy' = [proxy EXCEPT ![p] = [fields EXCEPT !.pc = "done", !.ret = ret]]
    /\ sess' = [sess EXCEPT ![proxy[p].owner] =
                  [sess[proxy[p].owner] EXCEPT
                      !.connWG = sess[proxy[p].owner].connWG - 1,
                      !.ret = IF ret = "err" THEN "errProxy" ELSE sess[proxy[p].owner].ret]]

\* main.go:275-281: proxyConnection has returned ret to the goroutine the
\* accept loop started; it logs and its deferred connWG.Done() runs
ProxyReturn(p, ret, fields) ==
    /\ proxy' = [proxy EXCEPT ![p] = [fields EXCEPT !.pc = "done", !.ret = ret]]
    /\ sess' = [sess EXCEPT ![proxy[p].owner].connWG = sess[proxy[p].owner].connWG - 1]

\* main.go:166-193: defer relayConn.Close(); net.Dial (it takes no context);
\* on failure return the error (the deferred relayConn.Close() runs); on
\* success defer localConn.Close(), make errCh and stopCh, start the watcher
\* and the two io.Copy goroutines
Dial(p, ok) ==
    /\ proxy[p].pc = "dial"
    /\ IF ok
       THEN /\ proxy' = [proxy EXCEPT ![p].pc = "recvFirst", ![p].localConn = "open",
                                      ![p].watcher = "select",
                                      ![p].copyRL = "run", ![p].copyLR = "run"]
            /\ UNCHANGED sess
       ELSE ProxyReturn(p, "err", CloseRelay(proxy[p]))
    /\ UNCHANGED <<mode, cfg, ctxDone, signalled, errCh, wg, doneCh, sup, failOrder>>

\* main.go:177-179: the watcher's select takes case <-ctx.Done() and closes
\* relayConn
WatcherCtx(p) ==
    /\ proxy[p].watcher = "select"
    /\ ctxDone
    /\ proxy' = [proxy EXCEPT ![p] = [CloseRelay(proxy[p]) EXCEPT !.watcher = "closeLocal"]]
    /\ UNCHANGED <<mode, cfg, ctxDone, signalled, errCh, wg, doneCh, sup, sess, failOrder>>

\* main.go:180: localConn.Close(), the second statement of the ctx case
WatcherCloseLocal(p) ==
    /\ proxy[p].watcher = "closeLocal"
    /\ proxy' = [proxy EXCEPT ![p] = [CloseLocal(proxy[p]) EXCEPT !.watcher = "done"]]
    /\ UNCHANGED <<mode, cfg, ctxDone, signalled, errCh, wg, doneCh, sup, sess, failOrder>>

\* main.go:181: the watcher's select takes case <-stopCh and ends
WatcherStop(p) ==
    /\ proxy[p].watcher = "select"
    /\ proxy[p].stopCh
    /\ proxy' = [proxy EXCEPT ![p].watcher = "done"]
    /\ UNCHANGED <<mode, cfg, ctxDone, signalled, errCh, wg, doneCh, sup, sess, failOrder>>

\* the connection an io.Copy task reads from: "RL" is io.Copy(localConn,
\* relayConn) of main.go:186, "LR" is io.Copy(relayConn, localConn) of :191
CopySrc(r, dir) == IF dir = "RL" THEN r.relayConn ELSE r.localConn
CopyState(r, dir) == IF dir = "RL" THEN r.copyRL ELSE r.copyLR

\* errCh <- err of a copy goroutine (main.go:187, 192); the buffer holds 2
CopyDone(p, dir, err) ==
    /\ Len(proxy[p].errCh) < 2
    /\ proxy' = [proxy EXCEPT ![p] =
          [[proxy[p] EXCEPT !.errCh = Append(proxy[p].errCh, err)]
              EXCEPT !.copyRL = IF dir = "RL" THEN "done" ELSE proxy[p].copyRL,
                     !.copyLR = IF dir = "LR" THEN "done" ELSE proxy[p].copyLR]]
    /\ UNCHANGED <<mode, cfg, ctxDone, signalled, errCh, wg, doneCh, sup, sess, failOrder>>

\* main.go:186-187, 191-192: io.Copy blocks in Read on its source; closing
\* the source on this side makes the Read, and so io.Copy, return an error
CopyClosed(p, dir) ==
    /\ CopyState(proxy[p], dir) = "run"
    /\ CopySrc(proxy[p], dir) = "closed"
    /\ CopyDone(p, dir, "err")

\* main.go:186-187, 191-192: io.Copy returns because of what the peer did:
\* nil at end-of-stream, an error when the stream breaks or when data arrives
\* and the Write to the other connection fails
CopyPeer(p, dir, err) ==
    /\ CopyState(proxy[p], dir) = "run"
    /\ CopyDone(p, dir, err)

\* RecvFirst with the close(stopCh) of line 196 left out
RecvFirst_NoStop(p) ==
    /\ proxy[p].pc = "recvFirst"
    /\ proxy[p].errCh # <<>>
    /\ proxy' = [proxy EXCEPT ![p] =
          CloseRelay([proxy[p] EXCEPT !.pc = "recvSecond", !.err = Head(proxy[p].errCh),
                                      !.errCh = Tail(proxy[p].errCh)])]
    /\ UNCHANGED <<mode, cfg, ctxDone, signalled, errCh, wg, doneCh, sup, sess, failOrder>>

\* RecvFirst with the relayConn.Close() of line 197 left out
RecvFirst_NoRelayClose(p) ==
    /\ proxy[p].pc = "recvFirst"
    /\ proxy[p].errCh # <<>>
    /\ proxy' = [proxy EXCEPT ![p].pc = "recvSecond", ![p].err = Head(proxy[p].errCh),
                              ![p].errCh = Tail(proxy[p].errCh), ![p].stopCh = TRUE]
    /\ UNCHANGED <<mode, cfg, ctxDone, signalled, errCh, wg, doneCh, sup, sess, failOrder>>

\* main.go:195-197: err = <-errCh; close(stopCh); relayConn.Close(), the
\* statements up to the next receive
RecvFirst(p) ==
    /\ proxy[p].pc = "recvFirst"
    /\ proxy[p].errCh # <<>>
    /\ proxy' = [proxy EXCEPT ![p] =
          CloseRelay([proxy[p] EXCEPT !.pc = "recvSecond", !.err = Head(proxy[p].errCh),
                                      !.errCh = Tail(proxy[p].errCh), !.stopCh = TRUE])]
    /\ UNCHANGED <<mode, cfg, ctxDone, signalled, errCh, wg, doneCh, sup, sess, failOrder>>

\* RecvSecond with "defer localConn.Close()" left out
RecvSecond_NoLocalClose(p) ==
    /\ proxy[p].pc = "recvSecond"
    /\ proxy[p].errCh # <<>>
    /\ ProxyReturn(p, proxy[p].err,
          CloseRelay([proxy[p] EXCEPT !.errCh = Tail(proxy[p].errCh)]))
    /\ UNCHANGED <<mode, cfg, ctxDone, signalled, errCh, wg, doneCh, sup, failOrder>>

\* main.go:198-200: <-errCh; return err, and the deferred localConn.Close()
\* and relayConn.Close() run
RecvSecond(p) ==
    /\ proxy[p].pc = "recvSecond"
    /\ proxy[p].errCh # <<>>
    /\ ProxyReturn(p, proxy[p].err,
          CloseRelay(CloseLocal([proxy[p] EXCEPT !.errCh = Tail(proxy[p].errCh)])))
    /\ UNCHANGED <<mode, cfg, ctxDone, signalled, errCh, wg, doneCh, sup, failOrder>>

\* ------------------------------------------------------------ specification
Dirs == {"RL", "LR"}
CopyResults == {"nil", "err"}

Next ==
    \/ SignalHandler
    \/ WgWaiter
    \/ SelectErr
    \/ SelectCtx
    \/ SelectDone
    \/ WaitDone
    \/ FlagsReturn
    \/ \E s \in Sessions : Resolve(s)
    \/ \E s \in Sessions, ok \in BOOLEAN : NewClient(s, ok)
    \/ \E s \in Sessions, ok \in BOOLEAN : Listen(s, ok)
    \/ \E s \in Sessions : ListenerCloser(s)
    \/ \E s \in Sessions : LoopTop(s)
    \/ \E s \in Sessions : AcceptOk(s)
    \/ \E s \in Sessions, cause \in {"closed", "transient"} : AcceptFail(s, cause)
    \/ \E s \in Sessions : AcceptErr(s)
    \/ \E s \in Sessions : Drain(s)
    \/ \E s \in Sessions : SessionTask(s)
    \/ \E p \in Proxies, ok \in BOOLEAN : Dial(p, ok)
    \/ \E p \in Proxies : WatcherCtx(p)
    \/ \E p \in Proxies : WatcherCloseLocal(p)
    \/ \E p \in Proxies : WatcherStop(p)
    \/ \E p \in Proxies, dir \in Dirs : CopyClosed(p, dir)
    \/ \E p \in Proxies, dir \in Dirs, err \in CopyResults : CopyPeer(p, dir, err)
    \/ \E p \in Proxies : RecvFirst(p)
    \/ \E p \in Proxies : RecvSecond(p)

Spec == Init /\ [][Next]_vars

\* ------------------------------------------- the relay directory by itself
\* BootstrapServers takes any directory and any preference list (validate
\* stands only before runExposeWithConfig): runServiceTunnel is called with
\* relay lists and preference lists of all shapes and resolves them.
NameB == <<"b">>
URL3 == <<"w">>

\* all sequences over S of length n at most
SeqsUpTo(S, n) == UNION {[1..k -> S] : k \in 0..n}

\* relays: names with and without blanks, URL lists with a URL shared
\* between relays, a URL in blanks that repeats the next one, a blank URL
ResolveRelays ==
    { RelayConfig(n, u) :
        n \in {NameA, NameB},
        u \in { <<URL1, URL2>>, <<URL2, URL3>>,
                << <<SP, "u">>, URL1 >>, << <<SP>> >> } }
    \cup { RelayConfig(NameSpA, <<URL3>>) }

\* preference entries: known names, one in blanks, a blank one, an unknown one
ResolvePrefs == { NameA, NameB, <<"a", SP>>, <<SP>>, <<"x">> }

ResolveConfigs ==
    { TunnelConfig(r, << ServiceConfig(<<"s">>, p, <<"t">>, defaultProtocols) >>) :
        r \in SeqsUpTo(ResolveRelays, MaxRelays),
        p \in SeqsUpTo(ResolvePrefs, MaxPrefs) }

ResolveInit ==
    /\ mode = "config"
    /\ cfg \in ResolveConfigs
    /\ ctxDone = FALSE
    /\ signalled = FALSE
    /\ errCh = <<>>
    /\ wg = 1
    /\ doneCh = FALSE
    /\ sup = [pc |-> "select", err |-> 0, ret |-> "none"]
    /\ sess = [s \in Sessions |-> IF s = 1 THEN NewSession ELSE NoSession]
    /\ proxy = [p \in Proxies |-> NoProxy]
    /\ failOrder = <<>>

ResolveNext == \E s \in Sessions : Resolve(s)

ResolveSpec == ResolveInit /\ [][ResolveNext]_vars

\* ----------------------------------------------------------------- fairness
\* The Go scheduler runs every goroutine that can take a step. A goroutine
\* blocked on a peer (Accept waiting for a connection, io.Copy waiting for
\* bytes or end-of-stream) or on a signal is owed nothing; the blocking calls
\* Dial, NewClient and Listen return in the end, with whichever outcome.
SupervisorSteps == SelectErr \/ SelectCtx \/ SelectDone \/ WaitDone \/ FlagsReturn

SessionSteps(s) ==
    \/ Resolve(s)
    \/ \E ok \in BOOLEAN : NewClient(s, ok)
    \/ \E ok \in BOOLEAN : Listen(s, ok)
    \/ LoopTop(s)
    \/ AcceptFail(s, "closed")
    \/ AcceptErr(s)
    \/ Drain(s)
    \/ SessionTask(s)

ProxySteps(p) ==
    \/ \E ok \in BOOLEAN : Dial(p, ok)
    \/ RecvFirst(p)
    \/ RecvSecond(p)

WatcherSteps(p) == WatcherCtx(p) \/ WatcherStop(p) \/ WatcherCloseLocal(p)

Fairness ==
    /\ WF_vars(SupervisorSteps)
    /\ WF_vars(WgWaiter)
    /\ \A s \in Sessions : WF_vars(SessionSteps(s)) /\ WF_vars(ListenerCloser(s))
    /\ \A p \in Proxies : /\ WF_vars(ProxySteps(p))
                          /\ WF_vars(WatcherSteps(p))
                          /\ \A dir \in Dirs : WF_vars(CopyClosed(p, dir))

FairSpec == Spec /\ Fairness

\* the least of it that the sessions need: some session goroutine that can
\* take a step does (a weaker condition than Fairness states for them)
SessionFairSpec ==
    Spec /\ WF_vars(\E s \in Sessions : SessionSteps(s) \/ ListenerCloser(s))

\* and what a proxy call needs: the call and its watcher, when they can take
\* a step, do
ProxyFairSpec ==
    Spec /\ \A p \in Proxies : WF_vars(ProxySteps(p) \/ WatcherSteps(p))

\* ------------------------------------------------------------ vocabulary
\* session s has registered its listener, is in its accept loop, has left
\* the loop, has returned from runServiceTunnel
Listening(s) == sess[s].listener # "none"
InLoop(s) == sess[s].pc \in {"loopTop", "accept", "acceptErr"}
LoopExited(s) == sess[s].pc \in {"drain", "returned", "finished"}
Returned(s) == sess[s].pc \in {"returned", "finished"}

\* proxyConnection of slot p is running, has returned; its dial succeeded
InFlight(p) == proxy[p].pc \in {"dial", "recvFirst", "recvSecond"}
ProxyDone(p) == proxy[p].pc = "done"
Dialled(p) == proxy[p].localConn # "none"

\* ================================================================= claims

\* C1 (as claimed): with no shutdown signal, when a session has returned a
\* non-nil error the supervisor returns a non-nil error, and it is the error
\* of the first session that failed; it never returns nil then.
C1_FirstErrorReturned ==
    (sup.pc = "returned" /\ ~signalled /\ failOrder # <<>>)
        => (sup.ret = "err" /\ sup.err = Head(failOrder))

\* C2: the supervisor never returns while a session task it started is still
\* running, and on the error path and the cancellation path the shared
\* context is cancelled before it waits for the sessions.
C2_SupervisorWaits ==
    /\ sup.pc = "returned" => \A s \in Sessions : sess[s].pc \in {"absent", "finished"}
    /\ sup.pc \in {"waitErr", "waitCtx"} => ctxDone

\* C2 witness: the supervisor has returned the error of one session after
\* another session, which was listening, was cancelled and returned nil.
C2_Witness ==
    /\ sup.pc = "returned"
    /\ sup.ret = "err"
    /\ \E s \in Sessions : sess[s].ret = "nil" /\ Listening(s)

\* the steps the goroutines of proxy call p take by themselves: the call
\* itself, its watcher, and a copy task whose source was closed on this side
ProxyGoroutines(p) ==
    ProxySteps(p) \/ WatcherSteps(p) \/ \E dir \in Dirs : CopyClosed(p, dir)

\* C3 (as claimed): for a proxy call whose local dial succeeded, once either
\* copy task has returned the call goes on to return with no further step
\* of either peer and without the context being cancelled: until it has
\* returned, one of its own goroutines can always take a step.
C3_EitherCopyEndsProxy ==
    \A p \in Proxies :
        (InFlight(p) /\ Dialled(p) /\ "done" \in {proxy[p].copyRL, proxy[p].copyLR})
            => ENABLED ProxyGoroutines(p)

\* C4 (as claimed): once the context is cancelled every proxy call in flight,
\* in whatever phase, is force-closed and goes on to return: until it has
\* returned, one of its own goroutines can always take a step, and none of
\* them is left blocked on an open connection.
C4_CancelEndsProxies ==
    \A p \in Proxies : (ctxDone /\ InFlight(p)) => ENABLED ProxyGoroutines(p)

\* C5: whenever proxyConnection has returned, on every exit path, the relay
\* connection is closed and the local connection, if it was opened, is closed.
C5_ClosedOnReturn ==
    \A p \in Proxies :
        ProxyDone(p) => (proxy[p].relayConn = "closed" /\ proxy[p].localConn # "open")

\* C5 witness: a call whose dial succeeded has returned, its local
\* connection closed by the deferred call alone (no cancellation).
C5_Witness ==
    \E p \in Proxies :
        /\ ProxyDone(p) /\ Dialled(p)
        /\ proxy[p].localCloses = 1
        /\ proxy[p].localConn = "closed"

\* C6 (as claimed): for a proxy call whose dial succeeded, by the time it has
\* returned Close was invoked exactly once on each of the two connections.
C6_ClosedExactlyOnce ==
    \A p \in Proxies :
        (ProxyDone(p) /\ Dialled(p))
            => (proxy[p].relayCloses = 1 /\ proxy[p].localCloses = 1)

\* C6 (amended): for a proxy call whose dial succeeded, by the time it has
\* returned both connections are closed, Close was invoked on the relay
\* connection two or three times (line 197, the deferred call, the watcher
\* on cancellation) and on the local connection once or twice (the deferred
\* call, the watcher on cancellation).
C6_CloseCounts ==
    \A p \in Proxies :
        (ProxyDone(p) /\ Dialled(p))
            => /\ proxy[p].relayConn = "closed" /\ proxy[p].localConn = "closed"
               /\ proxy[p].relayCloses \in {2, 3}
               /\ proxy[p].localCloses \in {1, 2}
               /\ proxy[p].localCloses = 2 => proxy[p].relayCloses = 3

\* C6 witness: a call returned on the cancellation path, the watcher having
\* closed both connections too.
C6_Witness ==
    \E p \in Proxies :
        /\ ProxyDone(p) /\ Dialled(p)
        /\ proxy[p].relayCloses = 3 /\ proxy[p].localCloses = 2

\* the proxy calls session s dispatched that are still running
Running(s) == {p \in Proxies : proxy[p].owner = s /\ InFlight(p)}

\* C8: a session does not return while a proxy task it dispatched is still
\* running; when it returns its wait group counts zero tasks in flight.
C8_DrainsBeforeReturn ==
    \A s \in Sessions :
        Returned(s) => (sess[s].connWG = 0 /\ Running(s) = {})

\* C8 witness: a session that dispatched a proxy task has returned.
C8_Witness ==
    \E s \in Sessions :
        /\ Returned(s)
        /\ \E p \in Proxies : proxy[p].owner = s /\ ProxyDone(p) /\ Dialled(p)

\* C7: when the context is cancelled while the accept loop is blocked in
\* Accept, the listener is closed, the blocked Accept fails and the loop
\* exits with nil; the failure is never a session error and the loop never
\* goes back to accepting after the cancellation.
C7_CancelledAcceptExitsNil ==
    /\ \A s \in Sessions :
          (ctxDone /\ sess[s].pc = "accept")
              ~> (LoopExited(s) /\ sess[s].ret = "nil" /\ sess[s].listener = "closed")
    /\ [][\A s \in Sessions :
            /\ (sess[s].pc = "accept" /\ sess[s].listener = "closed"
                    /\ sess'[s].pc # "accept") => sess'[s].pc = "acceptErr"
            /\ (sess[s].pc = "acceptErr" /\ ctxDone /\ sess'[s].pc # "acceptErr")
                    => (sess'[s].pc = "drain" /\ sess'[s].ret = "nil")
            /\ (ctxDone /\ sess'[s].pc = "accept") => sess[s].pc = "accept"]_vars
    /\ [](\A s \in Sessions : Listening(s) => ~IsErr(sess[s].ret))

\* C7 witness: the Accept of a session has failed on the closed listener; as
\* the top of the loop lets no cancelled session through to Accept, the
\* cancellation came while the session was blocked in Accept.
C7_Witness ==
    \E s \in Sessions :
        sess[s].pc = "acceptErr" /\ sess[s].listener = "closed" /\ ctxDone

\* C9: a failed proxied connection (local dial failure or I/O error) never
\* makes its session return an error and never stops the accept loop: the
\* step that ends a proxy call with an error leaves the session where it is,
\* and a listening session whose context is not cancelled is in its accept
\* loop with its listener open.
C9_ProxyFailureNotFatal ==
    /\ [](\A s \in Sessions :
            Listening(s) => /\ ~IsErr(sess[s].ret)
                            /\ ~ctxDone => (InLoop(s) /\ sess[s].listener = "open"))
    /\ [][\A p \in Proxies :
            (InFlight(p) /\ proxy'[p].pc = "done" /\ proxy'[p].ret = "err")
                => /\ sess'[proxy[p].owner].pc = sess[proxy[p].owner].pc
                   /\ sess'[proxy[p].owner].ret = sess[proxy[p].owner].ret
                   /\ sess'[proxy[p].owner].listener = sess[proxy[p].owner].listener]_vars

\* C9 witness: two proxy calls of a session have failed, one at the dial and
\* one with an I/O error, the context is not cancelled, and the session is
\* in Accept with free proxy slots: the next connection will be dispatched.
C9_Witness ==
    \E s \in Sessions, p, q \in Proxies :
        /\ ~ctxDone /\ sess[s].pc = "accept"
        /\ proxy[p].owner = s /\ ProxyDone(p) /\ ~Dialled(p) /\ proxy[p].ret = "err"
        /\ proxy[q].owner = s /\ ProxyDone(q) /\ Dialled(q) /\ proxy[q].ret = "err"
        /\ Free(p) /\ Free(q)

\* C10: while the context is not cancelled a failing Accept never ends the
\* loop: the session goes back to the top of the loop and calls Accept again;
\* so a session that reached Listening leaves the loop only after its context
\* is cancelled, and then with nil.
C10_AcceptErrorNotFatal ==
    /\ [][\A s \in Sessions :
            /\ (sess[s].pc = "acceptErr" /\ ~ctxDone /\ sess'[s].pc # "acceptErr")
                    => (sess'[s].pc = "loopTop" /\ sess'[s].ret = "none")
            /\ (sess[s].pc = "loopTop" /\ ~ctxDone /\ sess'[s].pc # "loopTop")
                    => sess'[s].pc = "accept"]_vars
    /\ [](\A s \in Sessions :
            (Listening(s) /\ LoopExited(s)) => (ctxDone /\ sess[s].ret = "nil"))

\* C10 witness: Accept has failed in a session whose context is not cancelled
\* and whose listener is open.
C10_Witness ==
    \E s \in Sessions :
        sess[s].pc = "acceptErr" /\ ~ctxDone /\ sess[s].listener = "open"

\* every session the configuration has a service for has run to its end
AllFinished ==
    \A s \in Sessions : sess[s].pc \in {"absent", "finished"}

\* C11: when the shutdown signal has cancelled the shared context and no
\* session has returned a non-nil error, the supervisor returns nil, and it
\* returns only after all sessions have finished; once they all have
\* finished nothing keeps it from returning.
C11_SignalShutdownReturnsNil ==
    /\ (sup.pc = "returned" /\ signalled /\ failOrder = <<>>)
          => (sup.ret = "nil" /\ AllFinished)
    /\ (signalled /\ failOrder = <<>> /\ AllFinished /\ sup.pc # "returned")
          => ENABLED (SupervisorSteps \/ WgWaiter)

\* C11 witness: the supervisor has returned after a signal that ended two
\* listening sessions, both of which returned nil.
C11_Witness ==
    /\ sup.pc = "returned" /\ signalled /\ failOrder = <<>>
    /\ Len(cfg.Services) = 2
    /\ \A s \in 1..2 : Listening(s) /\ sess[s].ret = "nil"

\* C12 (as claimed): in both modes, once the shutdown signal has cancelled
\* the context the run returns nil, whatever the sessions do around the
\* time of the signal.
\* The signal is what cancelled the context when it came while the
\* supervisor was in its select (config mode) or in its call of the one
\* session (flags mode); from there it must move on to a nil return only.
C12_SignalAlwaysNil ==
    [][(signalled /\ sup.pc \in {"select", "call"})
          => (sup'.pc # "waitErr" /\ sup'.ret # "err")]_vars

\* C13 (as claimed): when a session that opened a client and registered a
\* listener has returned, Close was invoked exactly once on the listener and
\* exactly once on the client.
C13_ReleasedExactlyOnce ==
    \A s \in Sessions :
        (Returned(s) /\ Listening(s))
            => (sess[s].listenerCloses = 1 /\ sess[s].clientCloses = 1)

\* C13 (amended): when such a session has returned, client and listener are
\* closed, Close was invoked on the client exactly once (the deferred call)
\* and on the listener once by the deferred call and once more by the
\* goroutine that closes it on cancellation, as soon as that one has run;
\* it can run, the session having left its loop on a cancelled context.
\* No other Close is ever invoked on either.
C13_ReleaseCounts ==
    \A s \in Sessions :
        /\ sess[s].clientCloses <= 1
        /\ sess[s].listenerCloses <= 2
        /\ (Returned(s) /\ Listening(s))
              => /\ sess[s].client = "closed" /\ sess[s].listener = "closed"
                 /\ sess[s].clientCloses = 1
                 /\ sess[s].listenerCloses = IF sess[s].closer = "done" THEN 2 ELSE 1
                 /\ ctxDone
                 /\ sess[s].closer = "wait" => ENABLED ListenerCloser(s)

\* C13 witness: a session has returned on the cancellation path after the
\* closing goroutine ran: two Close calls on the listener, one on the client.
C13_Witness ==
    \E s \in Sessions :
        /\ Returned(s) /\ Listening(s)
        /\ sess[s].listenerCloses = 2 /\ sess[s].clientCloses = 1

\* ---- the resolution of a preference list, said without the loops
\* the URL lists of the relays the preference entries name (an entry names
\* the relay whose directory key is the entry trimmed), one after another
RECURSIVE Concat(_)
Concat(ss) == IF ss = <<>> THEN <<>> ELSE Head(ss) \o Concat(Tail(ss))

Met(rd, prefs) ==
    Concat([i \in 1..Len(prefs) |->
              IF TrimSpace(prefs[i]) \in DOMAIN rd.entries
              THEN rd.entries[TrimSpace(prefs[i])].URLs
              ELSE <<>>])

\* the URLs of a walk as they can be used: trimmed, the blank ones dropped
Usable(met) ==
    LET nonBlank(u) == u # <<>>
    IN  SelectSeq([i \in 1..Len(met) |-> TrimSpace(met[i])], nonBlank)

NoDup(r) == \A i, j \in 1..Len(r) : i # j => r[i] # r[j]

FirstIndex(seq, x) ==
    CHOOSE i \in 1..Len(seq) : seq[i] = x /\ \A j \in 1..(i - 1) : seq[j] # x

\* r holds the elements of met, each once, in the order met has them first
InFirstSeenOrder(r, met) ==
    /\ NoDup(r)
    /\ {r[i] : i \in 1..Len(r)} = {met[i] : i \in 1..Len(met)}
    /\ \A i, j \in 1..Len(r) :
          i < j => FirstIndex(met, r[i]) < FirstIndex(met, r[j])

\* C14 (as claimed): whenever BootstrapServers succeeds, the URLs returned
\* have no duplicates and are the URLs of the known relays' lists, walked in
\* preference order and list order, in first-occurrence order.
C14_FirstSeenOrder ==
    \A s \in Sessions :
        sess[s].resolveErr = "nil"
            => InFirstSeenOrder(sess[s].bootstrapServers,
                                Met(relayDir, cfg.Services[s].RelayPreference))

\* C14 (amended): whenever BootstrapServers succeeds, the URLs returned have
\* no duplicates and are, in first-occurrence order, the URLs of the walk
\* trimmed of surrounding blanks, the blank ones left out.
C14_FirstSeenOrderTrimmed ==
    \A s \in Sessions :
        sess[s].resolveErr = "nil"
            => InFirstSeenOrder(sess[s].bootstrapServers,
                                Usable(Met(relayDir, cfg.Services[s].RelayPreference)))

\* C14 witness: the directory {a: [u, v], b: [v, w]} and the preference
\* [a, b] have resolved to [u, v, w].
C14_Witness ==
    /\ cfg.Relays = << RelayConfig(NameA, <<URL1, URL2>>),
                       RelayConfig(NameB, <<URL2, URL3>>) >>
    /\ cfg.Services[1].RelayPreference = <<NameA, NameB>>
    /\ sess[1].resolveErr = "nil"
    /\ sess[1].bootstrapServers = <<URL1, URL2, URL3>>

\* C15: BootstrapServers fails with the empty-preference error exactly when
\* the preference list has length zero, and with the other, different error
\* exactly when the list is not empty but yields no usable URL (names
\* unknown or blank, URLs blank or none); it never returns an empty list
\* with success, and no list with an error.
C15_ResolveErrors ==
    /\ ErrEmptyPreference # ErrNoneResolved
    /\ \A s \in Sessions :
          sess[s].resolveErr # "none"
            => LET prefs == cfg.Services[s].RelayPreference
                   r == sess[s]
               IN  /\ r.resolveErr \in {"nil", ErrEmptyPreference, ErrNoneResolved}
                   /\ r.resolveErr = ErrEmptyPreference <=> Len(prefs) = 0
                   /\ r.resolveErr = ErrNoneResolved
                         <=> (Len(prefs) > 0 /\ Usable(Met(relayDir, prefs)) = <<>>)
                   /\ r.resolveErr = "nil" <=> r.bootstrapServers # <<>>

\* C15 witness: a preference list naming a relay the directory knows has
\* failed with the no-servers error, the relay holding no usable URL.
C15_Witness ==
    \E s \in Sessions :
        /\ sess[s].resolveErr = ErrNoneResolved
        /\ \E i \in 1..Len(cfg.Services[s].RelayPreference) :
              TrimSpace(cfg.Services[s].RelayPreference[i]) \in DOMAIN relayDir.entries

\* how far a session has come: Resolving, Registering (connect, then
\* listen), Listening, Draining, Closed
Stage(pc) ==
    CASE pc = "resolve" -> 0
      [] pc = "newClient" -> 1
      [] pc = "listen" -> 2
      [] pc \in {"loopTop", "accept", "acceptErr"} -> 3
      [] pc = "drain" -> 4
      [] pc \in {"returned", "finished"} -> 5
      [] OTHER -> 6

\* C16: a session never moves back to an earlier stage; resolution, connect
\* and registration are each left by the one attempt made, either to the
\* next stage or, on failure, straight to the return of that step's error
\* with nothing of the later steps attempted: no client opened after a
\* failed resolution, no listener registered after a failed connect.
C16_LinearNoRetry ==
    /\ [][\A s \in Sessions :
            LET a == sess[s]
                b == sess'[s]
            IN  /\ Stage(b.pc) >= Stage(a.pc)
                /\ (a.pc = "resolve" /\ b # a)
                      => \/ b.pc = "newClient" /\ b.resolveErr = "nil"
                         \/ b.pc = "returned" /\ b.ret = "errResolve"
                /\ (a.pc = "newClient" /\ b # a)
                      => \/ b.pc = "listen" /\ b.client = "open"
                         \/ b.pc = "returned" /\ b.ret = "errConnect"
                /\ (a.pc = "listen" /\ b # a)
                      => \/ b.pc = "loopTop" /\ b.listener = "open"
                         \/ b.pc = "returned" /\ b.ret = "errRegister"]_vars
    /\ [](\A s \in Sessions :
            /\ sess[s].ret = "errResolve"
                  => (sess[s].client = "none" /\ sess[s].listener = "none")
            /\ sess[s].ret = "errConnect"
                  => (sess[s].client = "none" /\ sess[s].listener = "none")
            /\ sess[s].ret = "errRegister"
                  => (sess[s].clientCloses = 1 /\ sess[s].listener = "none")
            /\ IsErr(sess[s].ret) => Returned(s))

\* C16 witness: a session resolved its relays, connected, failed to register
\* its listener and has returned that error.
C16_Witness ==
    \E s \in Sessions :
        /\ Returned(s) /\ sess[s].ret = "errRegister"
        /\ sess[s].resolveErr = "nil" /\ sess[s].client = "closed"

\* C17 (as claimed): when proxyConnection has returned after a successful
\* dial, both copy tasks have delivered their result and the context
\* watcher has ended.
C17_HelpersEnded ==
    \A p \in Proxies :
        (ProxyDone(p) /\ Dialled(p))
            => /\ proxy[p].copyRL = "done" /\ proxy[p].copyLR = "done"
               /\ proxy[p].watcher = "done"

\* C17 (amended): when proxyConnection has returned after a successful dial,
\* both copy tasks have delivered their result and both results were
\* received; the watcher was told to stop (stopCh is closed) and, if it has
\* not ended yet, can take its next step whether or not the context is
\* cancelled. It is not waited for. A call whose dial failed started no
\* helper task.
C17_HelpersReleased ==
    \A p \in Proxies :
        /\ (ProxyDone(p) /\ Dialled(p))
              => /\ proxy[p].copyRL = "done" /\ proxy[p].copyLR = "done"
                 /\ proxy[p].errCh = <<>>
                 /\ proxy[p].stopCh
                 /\ proxy[p].watcher # "done" => ENABLED WatcherSteps(p)
        /\ (ProxyDone(p) /\ ~Dialled(p))
              => /\ proxy[p].copyRL = "none" /\ proxy[p].copyLR = "none"
                 /\ proxy[p].watcher = "none"

\* C17 witness: a call has returned and its watcher has ended though the
\* context was never cancelled.
C17_Witness ==
    \E p \in Proxies :
        /\ ProxyDone(p) /\ Dialled(p)
        /\ ~ctxDone /\ proxy[p].watcher = "done"

\* the errors sent to errCh so far: those buffered and the one received
ErrorsSent ==
    {errCh[i] : i \in 1..Len(errCh)} \cup (IF sup.err = 0 THEN {} ELSE {sup.err})

\* C18: in config mode a session task whose runServiceTunnel has returned
\* can always take its last step, the send of its error included, whatever
\* the supervisor is doing; every session sends one error at most and only
\* if it failed, so errCh never holds more than one error per service; wg
\* counts the tasks that have not finished, and once it is zero the waiter
\* can close doneCh.
C18_ErrorReportNeverBlocks ==
    mode = "config" =>
        /\ \A s \in Sessions : sess[s].pc = "returned" => ENABLED SessionTask(s)
        /\ Len(errCh) <= Len(cfg.Services)
        /\ NoDup(errCh) /\ (sup.err # 0 => \A i \in 1..Len(errCh) : errCh[i] # sup.err)
        /\ ErrorsSent = {s \in Sessions : sess[s].pc = "finished" /\ IsErr(sess[s].ret)}
        /\ wg = Cardinality({s \in Sessions : sess[s].pc \notin {"absent", "finished"}})
        /\ (wg = 0 /\ ~doneCh) => ENABLED WgWaiter

\* C18 witness: the supervisor has taken one error and receives no more,
\* and another failing session has sent its error and finished all the same.
C18_Witness ==
    /\ mode = "config"
    /\ sup.pc = "waitErr"
    /\ errCh # <<>>
    /\ AllFinished

\* C19: a successful Accept is followed by the start of exactly one proxy
\* task holding the accepted connection, with no look at the context in
\* between; an open relay connection belongs to a running proxy call whose
\* session has not returned and stays with it until it is closed; it is
\* closed when the dial fails, and once the context is cancelled it is
\* closed in the end whatever the peers do.
C19_AcceptedConnClosed ==
    /\ [][\A s \in Sessions :
            (sess[s].pc = "accept" /\ sess'[s].pc \notin {"accept", "acceptErr"})
                => /\ sess'[s].pc = "loopTop"
                   /\ sess'[s].connWG = sess[s].connWG + 1
                   /\ \E p \in Proxies :
                         /\ Free(p)
                         /\ proxy'[p] = [NoProxy EXCEPT !.owner = s, !.pc = "dial",
                                                         !.relayConn = "open"]
                         /\ \A q \in Proxies \ {p} : proxy'[q] = proxy[q]]_vars
    /\ [][\A p \in Proxies :
            /\ proxy[p].relayConn = "open"
                  => /\ proxy'[p].relayConn \in {"open", "closed"}
                     /\ proxy'[p].owner = proxy[p].owner
            /\ (proxy[p].pc = "dial" /\ proxy'[p].pc = "done")
                  => proxy'[p].relayConn = "closed"]_vars
    /\ [](\A p \in Proxies :
            proxy[p].relayConn = "open"
                => (InFlight(p) /\ ~Returned(proxy[p].owner)))
    /\ \A p \in Proxies :
          (ctxDone /\ proxy[p].relayConn = "open") ~> (proxy[p].relayConn = "closed")

\* C19 witness: the context is cancelled, a relay connection has been
\* accepted and handed to a proxy task that has not taken its first step,
\* and the session has not looked at the context since the Accept.
C19_Witness ==
    \E p \in Proxies :
        /\ proxy[p].pc = "dial" /\ proxy[p].relayConn = "open"
        /\ ctxDone
        /\ sess[proxy[p].owner].pc = "loopTop"

\* C20 (as claimed): in config mode, the configuration having passed
\* validate, every session's resolution succeeds with at least one URL.
C20_ValidatedConfigResolves ==
    mode = "config" =>
        \A s \in Sessions :
            sess[s].resolveErr # "none"
                => (sess[s].resolveErr = "nil" /\ sess[s].bootstrapServers # <<>>)

====
